---------------------------- MODULE Spec2Model ----------------------------
(***************************************************************************)
(* A model of opencode-damage-control: the pattern matchers               *)
(* (matchers/patterns.ts, matchers/bash.ts, matchers/file.ts), the config *)
(* cache (loadConfig / reloadConfig) and the plugin's tool.execute.before *)
(* hook (index.ts).                                                       *)
(*                                                                         *)
(* Strings are TLA+ strings; a character is a string of length one.       *)
(* Regular expressions are compiled from their source text by RegExp      *)
(* (a parser for the part of the JavaScript syntax the program's patterns *)
(* use) and run by Test, so that escaping, substitution into a template   *)
(* and compilation failures are computed, not assumed.                    *)
(***************************************************************************)
EXTENDS Naturals, Sequences, FiniteSets, TLC

(***************************************************************************)
(* Strings (the String.prototype methods the program calls)               *)
(***************************************************************************)

Ch(s, i) == SubSeq(s, i, i)

Range(s) == {Ch(s, i) : i \in 1..Len(s)}

\* s.slice(i - 1): the rest of s from its i-th character
From(s, i) == SubSeq(s, i, Len(s))

\* s.startsWith(p)
StartsWith(s, p) == Len(p) <= Len(s) /\ SubSeq(s, 1, Len(p)) = p

\* the first index at which sub occurs in s, 0 when it does not (s.indexOf(sub) + 1)
RECURSIVE IndexFrom(_, _, _)
\* the first index from i on at which sub occurs in s, 0 when there is none
IndexFrom(s, sub, i) ==
  IF i + Len(sub) - 1 > Len(s) THEN 0
  ELSE IF SubSeq(s, i, i + Len(sub) - 1) = sub THEN i
  ELSE IndexFrom(s, sub, i + 1)

IndexOf(s, sub) == IndexFrom(s, sub, 1)

\* s.includes(sub)
Includes(s, sub) == IndexOf(s, sub) # 0

RECURSIVE Expand(_, _, _)
\* a replacement string with its special patterns expanded: $$ is a dollar sign and
\* $& the matched text (the patterns for the text before and after the match are
\* left as they are: no string of the model holds them)
Expand(repl, i, matched) ==
  IF i > Len(repl) THEN ""
  ELSE IF Ch(repl, i) = "$" /\ i < Len(repl) /\ Ch(repl, i + 1) \in {"$", "&"}
    THEN (IF Ch(repl, i + 1) = "$" THEN "$" ELSE matched) \o Expand(repl, i + 2, matched)
    ELSE Ch(repl, i) \o Expand(repl, i + 1, matched)

\* s.replace(sub, repl) with a string pattern: the first occurrence only
ReplaceAt(s, k, sub, repl) ==
  IF k = 0 THEN s
  ELSE SubSeq(s, 1, k - 1) \o Expand(repl, 1, sub) \o From(s, k + Len(sub))

ReplaceFirst(s, sub, repl) == ReplaceAt(s, IndexOf(s, sub), sub, repl)

UpperLetters == "ABCDEFGHIJKLMNOPQRSTUVWXYZ"
LowerLetters == "abcdefghijklmnopqrstuvwxyz"
DigitChars == "0123456789"

LowerOf == [c \in Range(UpperLetters) |->
              Ch(LowerLetters, CHOOSE i \in 1..Len(UpperLetters) : Ch(UpperLetters, i) = c)]

ToLowerChar(c) == IF c \in DOMAIN LowerOf THEN LowerOf[c] ELSE c

RECURSIVE LowerFrom(_, _)
\* s from its i-th character on, in lower case
LowerFrom(s, i) ==
  IF i > Len(s) THEN "" ELSE ToLowerChar(Ch(s, i)) \o LowerFrom(s, i + 1)

\* s.toLowerCase()
toLowerCase(s) == LowerFrom(s, 1)

(***************************************************************************)
(* Regular expressions: new RegExp(source, flags) and regex.test(string)  *)
(***************************************************************************)

WordChars == Range(UpperLetters) \cup Range(LowerLetters) \cup Range(DigitChars) \cup {"_"}
SpaceChars == {" ", "\t", "\n", "\r", "\f"}
LineTerminators == {"\n", "\r"}

\* (a brace or a closing bracket stands for itself outside unicode mode, as any
\* character does that the cases of ParseTerm do not name)
Quantifiers == {"*", "+", "?"}

Bad == [ok |-> FALSE, re |-> [t |-> "cat", xs |-> << >>], pos |-> 0]
Good(re, pos) == [ok |-> TRUE, re |-> re, pos |-> pos]

\* the node for the escape \c outside a class
EscapeNode(c) ==
  CASE c = "b" -> [t |-> "wb", neg |-> FALSE]
    [] c = "B" -> [t |-> "wb", neg |-> TRUE]
    [] c \in {"s", "w", "d"} -> [t |-> "set", neg |-> FALSE, items |-> <<[k |-> c]>>]
    [] c = "S" -> [t |-> "set", neg |-> TRUE, items |-> <<[k |-> "s"]>>]
    [] c = "W" -> [t |-> "set", neg |-> TRUE, items |-> <<[k |-> "w"]>>]
    [] c = "D" -> [t |-> "set", neg |-> TRUE, items |-> <<[k |-> "d"]>>]
    [] c = "t" -> [t |-> "chr", c |-> "\t"]
    [] c = "n" -> [t |-> "chr", c |-> "\n"]
    [] c = "r" -> [t |-> "chr", c |-> "\r"]
    [] OTHER -> [t |-> "chr", c |-> c]

\* the class item for the escape \c inside a class
ClassEscape(c) ==
  CASE c \in {"s", "w", "d"} -> [k |-> c]
    [] c = "t" -> [k |-> "c", c |-> "\t"]
    [] c = "n" -> [k |-> "c", c |-> "\n"]
    [] c = "r" -> [k |-> "c", c |-> "\r"]
    [] OTHER -> [k |-> "c", c |-> c]

RECURSIVE ParseClassItems(_, _, _)
\* the items of a class from position i up to its closing bracket
ParseClassItems(p, i, acc) ==
  IF i > Len(p) THEN Bad
  ELSE IF Ch(p, i) = "]" THEN Good(acc, i + 1)
  ELSE IF Ch(p, i) = "\\"
    THEN IF i + 1 > Len(p) THEN Bad
         ELSE ParseClassItems(p, i + 2, Append(acc, ClassEscape(Ch(p, i + 1))))
    ELSE ParseClassItems(p, i + 1, Append(acc, [k |-> "c", c |-> Ch(p, i)]))

\* atom x followed by what is at position i: a quantifier (and a lazy mark) or not
Quantified(p, i, x) ==
  IF i <= Len(p) /\ Ch(p, i) \in Quantifiers
  THEN Good([t |-> (IF Ch(p, i) = "*" THEN "star" ELSE IF Ch(p, i) = "+" THEN "plus" ELSE "opt"),
             x |-> x],
            IF i + 1 <= Len(p) /\ Ch(p, i + 1) = "?" THEN i + 2 ELSE i + 1)
  ELSE Good(x, i)

\* an assertion is not quantifiable: "nothing to repeat"
Assertion(p, i, x) ==
  IF i <= Len(p) /\ Ch(p, i) \in Quantifiers THEN Bad ELSE Good(x, i)

\* the term that the escape node n makes, i being the position after the escape
EscapeTerm(p, i, n) == IF n.t = "wb" THEN Assertion(p, i, n) ELSE Quantified(p, i, n)

\* the term that a class makes, r being the outcome of parsing its items
ClassTerm(p, neg, r) ==
  IF r.ok THEN Quantified(p, r.pos, [t |-> "set", neg |-> neg, items |-> r.re]) ELSE Bad

\* the term that a group makes, r being the outcome of parsing what follows its
\* opening: kind is "!" or "=" for a lookahead and "" for a group
GroupTerm(p, kind, r) ==
  IF ~r.ok \/ r.pos > Len(p) \/ Ch(p, r.pos) # ")" THEN Bad
  ELSE IF kind # ""
    THEN Assertion(p, r.pos + 1, [t |-> "look", neg |-> (kind = "!"), x |-> r.re])
    ELSE Quantified(p, r.pos + 1, r.re)

\* is there a "(?" and one of the characters of marks at position i
GroupMark(p, i, marks) ==
  i + 2 <= Len(p) /\ Ch(p, i + 1) = "?" /\ Ch(p, i + 2) \in marks

RECURSIVE ParseDisjunction(_, _, _), ParseAlternative(_, _, _), ParseTerm(_, _)
RECURSIVE AlternativeStep(_, _, _), DisjunctionStep(_, _, _), TermAt(_, _, _)

\* one term at position i (i <= Len(p)), c being the character there, which is none
\* of "|" and ")"
ParseTerm(p, i) == TermAt(p, i, Ch(p, i))

TermAt(p, i, c) ==
  CASE c = "^" -> Assertion(p, i + 1, [t |-> "bol"])
    [] c = "$" -> Assertion(p, i + 1, [t |-> "eol"])
    [] c = "." -> Quantified(p, i + 1, [t |-> "any"])
    [] c \in Quantifiers -> Bad
    [] c = "\\" ->
         IF i + 1 > Len(p) THEN Bad ELSE EscapeTerm(p, i + 2, EscapeNode(Ch(p, i + 1)))
    [] c = "[" ->
         IF i + 1 <= Len(p) /\ Ch(p, i + 1) = "^"
         THEN ClassTerm(p, TRUE, ParseClassItems(p, i + 2, << >>))
         ELSE ClassTerm(p, FALSE, ParseClassItems(p, i + 1, << >>))
    [] c = "(" ->
         GroupTerm(p,
                   IF GroupMark(p, i, {"!", "="}) THEN Ch(p, i + 2) ELSE "",
                   ParseDisjunction(p, IF GroupMark(p, i, {"!", "=", ":"}) THEN i + 3 ELSE i + 1,
                                    << >>))
    [] OTHER -> Quantified(p, i + 1, [t |-> "chr", c |-> c])

\* the terms from position i up to "|", ")" or the end
ParseAlternative(p, i, acc) ==
  IF i > Len(p) \/ Ch(p, i) \in {"|", ")"}
  THEN Good([t |-> "cat", xs |-> acc], i)
  ELSE AlternativeStep(p, acc, ParseTerm(p, i))

\* r being the term just parsed: go on with the terms after it
AlternativeStep(p, acc, r) ==
  IF r.ok THEN ParseAlternative(p, r.pos, Append(acc, r.re)) ELSE Bad

\* the alternatives from position i up to ")" or the end
ParseDisjunction(p, i, acc) == DisjunctionStep(p, acc, ParseAlternative(p, i, << >>))

\* r being the alternative just parsed: go on with the alternatives after it
DisjunctionStep(p, acc, r) ==
  IF ~r.ok THEN Bad
  ELSE IF r.pos <= Len(p) /\ Ch(p, r.pos) = "|"
    THEN ParseDisjunction(p, r.pos + 1, Append(acc, r.re))
    ELSE Good([t |-> "alt", xs |-> Append(acc, r.re)], r.pos)

\* the regex object, r being the outcome of parsing the whole source
Compiled(source, ignoreCase, r) ==
  [ok |-> r.ok /\ r.pos = Len(source) + 1, re |-> r.re, i |-> ignoreCase]

\* new RegExp(source, flags): ok is FALSE where the constructor throws a SyntaxError
RegExp(source, ignoreCase) == Compiled(source, ignoreCase, ParseDisjunction(source, 1, << >>))

\* the canonical form of a character under the i flag
Canon(c, ic) == IF ic THEN ToLowerChar(c) ELSE c

ItemHas(item, c, ic) ==
  CASE item.k = "s" -> c \in SpaceChars
    [] item.k = "w" -> c \in WordChars
    [] item.k = "d" -> c \in Range(DigitChars)
    [] OTHER -> Canon(item.c, ic) = Canon(c, ic)

IsWordAt(s, i) == i >= 1 /\ i <= Len(s) /\ Ch(s, i) \in WordChars

RECURSIVE Ends(_, _, _, _), CatEnds(_, _, _, _, _), StarEnds(_, _, _, _, _)
RECURSIVE PlusEnds(_, _, _, _), StarStep(_, _, _, _, _)

\* the positions at which a match of node re that starts at position i of s can end
\* (a position is the index of the next character to read, 1..Len(s)+1)
Ends(re, s, i, ic) ==
  CASE re.t = "chr" ->
         IF i <= Len(s) /\ Canon(Ch(s, i), ic) = Canon(re.c, ic) THEN {i + 1} ELSE {}
    [] re.t = "any" ->
         IF i <= Len(s) /\ Ch(s, i) \notin LineTerminators THEN {i + 1} ELSE {}
    [] re.t = "set" ->
         IF i <= Len(s)
            /\ ((\E k \in 1..Len(re.items) : ItemHas(re.items[k], Ch(s, i), ic)) # re.neg)
         THEN {i + 1} ELSE {}
    [] re.t = "bol" -> IF i = 1 THEN {i} ELSE {}
    [] re.t = "eol" -> IF i = Len(s) + 1 THEN {i} ELSE {}
    [] re.t = "wb" ->
         IF (IsWordAt(s, i - 1) # IsWordAt(s, i)) # re.neg THEN {i} ELSE {}
    [] re.t = "look" ->
         IF (Ends(re.x, s, i, ic) # {}) # re.neg THEN {i} ELSE {}
    [] re.t = "cat" -> CatEnds(re.xs, 1, s, {i}, ic)
    [] re.t = "alt" -> UNION {Ends(re.xs[k], s, i, ic) : k \in 1..Len(re.xs)}
    [] re.t = "opt" -> {i} \cup Ends(re.x, s, i, ic)
    [] re.t = "star" -> StarEnds(re.x, s, {i}, {i}, ic)
    [] re.t = "plus" -> PlusEnds(re.x, s, Ends(re.x, s, i, ic), ic)

\* the terms xs[k..] matched in sequence from any of the positions in from
CatEnds(xs, k, s, from, ic) ==
  IF from = {} \/ k > Len(xs) THEN from
  ELSE CatEnds(xs, k + 1, s, UNION {Ends(xs[k], s, j, ic) : j \in from}, ic)

\* zero or more repetitions of x: the positions reachable from seen, frontier being
\* the ones not yet extended
StarEnds(x, s, frontier, seen, ic) ==
  StarStep(x, s, UNION {Ends(x, s, j, ic) : j \in frontier} \ seen, seen, ic)

\* more being the positions one more repetition adds
StarStep(x, s, more, seen, ic) ==
  IF more = {} THEN seen ELSE StarEnds(x, s, more, seen \cup more, ic)

\* one or more repetitions of x, first being where the first one can end
PlusEnds(x, s, first, ic) == StarEnds(x, s, first, first, ic)

\* regex.test(s) for a compiled regex without the g or y flag: a match anywhere in s
Test(regex, s) == \E i \in 1..(Len(s) + 1) : Ends(regex.re, s, i, regex.i) # {}

\* try { new RegExp(...).test(s) } catch { skip }: a regex that did not compile
\* matches nothing
Matches(regex, s) == regex.ok /\ Test(regex, s)

(***************************************************************************)
(* matchers/patterns.ts: glob utilities                                   *)
(***************************************************************************)

\* os.homedir(): the home directory of the user who runs the host
homedir == "/h"

\* path.basename(p): the last component of p, trailing separators dropped
RECURSIVE StripTrailingSlashes(_)
StripTrailingSlashes(p) ==
  IF Len(p) > 0 /\ Ch(p, Len(p)) = "/" THEN StripTrailingSlashes(SubSeq(p, 1, Len(p) - 1))
  ELSE p

\* what follows the last separator of q
LastComponent(q, cut) ==
  IF cut = {} THEN q ELSE From(q, 1 + CHOOSE i \in cut : \A j \in cut : j <= i)

Separators(q) == {i \in 1..Len(q) : Ch(q, i) = "/"}

BaseOf(q) == LastComponent(q, Separators(q))

basename(p) == BaseOf(StripTrailingSlashes(p))

\* s.replace(/^~/, homedir())
ExpandTilde(s) == IF StartsWith(s, "~") THEN homedir \o From(s, 2) ELSE s

\* s.replace(/\/$/, "")
DropTrailingSlash(s) ==
  IF Len(s) > 0 /\ Ch(s, Len(s)) = "/" THEN SubSeq(s, 1, Len(s) - 1) ELSE s

isGlobPattern(pattern) == Includes(pattern, "*") \/ Includes(pattern, "?") \/ Includes(pattern, "[")

\* the characters of ".+^${}()|[]\\", which globToRegex and matchGlob escape
GlobEscaped == {".", "+", "^", "$", "{", "}", "(", ")", "|", "[", "]", "\\"}

GlobToRegexChar(char) ==
  IF char = "*" THEN "[^\\s/]*"
  ELSE IF char = "?" THEN "[^\\s/]"
  ELSE IF char \in GlobEscaped THEN "\\" \o char
  ELSE char

RECURSIVE GlobToRegexFrom(_, _)
\* the loop over the characters of globPattern, from the i-th on
GlobToRegexFrom(globPattern, i) ==
  IF i > Len(globPattern) THEN ""
  ELSE GlobToRegexChar(Ch(globPattern, i)) \o GlobToRegexFrom(globPattern, i + 1)

globToRegex(globPattern) == GlobToRegexFrom(globPattern, 1)

\* the three replace calls of matchGlob, character by character: no replacement
\* produces a character a later one rewrites
MatchGlobChar(c) ==
  IF c \in GlobEscaped THEN "\\" \o c
  ELSE IF c = "*" THEN ".*"
  ELSE IF c = "?" THEN "."
  ELSE c

RECURSIVE MatchGlobFrom(_, _)
\* regexPattern, from the i-th character of the lower-cased pattern on
MatchGlobFrom(lowered, i) ==
  IF i > Len(lowered) THEN ""
  ELSE MatchGlobChar(Ch(lowered, i)) \o MatchGlobFrom(lowered, i + 1)

matchGlob(str, pattern) ==
  Matches(RegExp("^" \o MatchGlobFrom(toLowerCase(pattern), 1) \o "$", TRUE),
          toLowerCase(str))

\* matchPath after its first two lines
MatchExpanded(normalized, pattern, expandedPattern) ==
  IF isGlobPattern(pattern)
  THEN \/ matchGlob(basename(normalized), expandedPattern)
       \/ matchGlob(basename(normalized), pattern)
       \/ matchGlob(normalized, expandedPattern)
  ELSE \/ StartsWith(normalized, expandedPattern)
       \/ normalized = DropTrailingSlash(expandedPattern)

matchPath(filePath, pattern) ==
  MatchExpanded(ExpandTilde(filePath), pattern, ExpandTilde(pattern))

(***************************************************************************)
(* matchers/patterns.ts: operation templates                              *)
(***************************************************************************)

\* WRITE_PATTERNS with a redirection template that wants white space after the ">"
WriteNeedsSpace == <<
  <<">\\s+{path}", "write">>,
  <<"\\btee\\s+(?!.*-a).*{path}", "write">> >>

WRITE_PATTERNS == <<
  <<">\\s*{path}", "write">>,
  <<"\\btee\\s+(?!.*-a).*{path}", "write">> >>

APPEND_PATTERNS == <<
  <<">>\\s*{path}", "append">>,
  <<"\\btee\\s+-a\\s+.*{path}", "append">>,
  <<"\\btee\\s+.*-a.*{path}", "append">> >>

EDIT_PATTERNS == <<
  <<"\\bsed\\s+-i.*{path}", "edit">>,
  <<"\\bperl\\s+-[^\\s]*i.*{path}", "edit">>,
  <<"\\bawk\\s+-i\\s+inplace.*{path}", "edit">> >>

MOVE_COPY_PATTERNS == <<
  <<"\\bmv\\s+.*\\s+{path}", "move">>,
  <<"\\bcp\\s+.*\\s+{path}", "copy">> >>

DELETE_PATTERNS == <<
  <<"\\brm\\s+.*{path}", "delete">>,
  <<"\\bunlink\\s+.*{path}", "delete">>,
  <<"\\brmdir\\s+.*{path}", "delete">>,
  <<"\\bshred\\s+.*{path}", "delete">> >>

PERMISSION_PATTERNS == <<
  <<"\\bchmod\\s+.*{path}", "chmod">>,
  <<"\\bchown\\s+.*{path}", "chown">>,
  <<"\\bchgrp\\s+.*{path}", "chgrp">> >>

TRUNCATE_PATTERNS == <<
  <<"\\btruncate\\s+.*{path}", "truncate">>,
  <<":\\s*>\\s*{path}", "truncate">> >>

READ_ONLY_BLOCKED ==
  WRITE_PATTERNS \o APPEND_PATTERNS \o EDIT_PATTERNS \o MOVE_COPY_PATTERNS
    \o DELETE_PATTERNS \o PERMISSION_PATTERNS \o TRUNCATE_PATTERNS

\* NO_DELETE_BLOCKED given the template list of the read-only paths
EveryModification == READ_ONLY_BLOCKED

NO_DELETE_BLOCKED == DELETE_PATTERNS

(***************************************************************************)
(* matchers/patterns.ts: checkPathPatterns                                *)
(***************************************************************************)

NotBlocked == [blocked |-> FALSE, reason |-> ""]
Blocked(reason) == [blocked |-> TRUE, reason |-> reason]

\* path.replace(/[.*+?^${}()|[\]\\]/g, "\\$&")
EscapeChar(c) == IF c \in GlobEscaped \cup {"*", "?"} THEN "\\" \o c ELSE c
RECURSIVE EscapeFrom(_, _)
EscapeFrom(s, i) == IF i > Len(s) THEN "" ELSE EscapeChar(Ch(s, i)) \o EscapeFrom(s, i + 1)

EscapeRegExp(s) == EscapeFrom(s, 1)

\* one iteration of the glob loop, cmdPrefix being the template without its
\* placeholder (a regex that does not compile is skipped)
GlobTemplateMatches(command, globRegex, cmdPrefix) ==
  cmdPrefix # "" /\ Matches(RegExp(cmdPrefix \o globRegex, TRUE), command)

RECURSIVE ScanGlobTemplates(_, _, _, _, _, _)
\* the glob loop over the templates, from the k-th on: the first that matches returns
ScanGlobTemplates(command, path, globRegex, patterns, pathType, k) ==
  IF k > Len(patterns) THEN NotBlocked
  ELSE IF GlobTemplateMatches(command, globRegex, ReplaceFirst(patterns[k][1], "{path}", ""))
    THEN Blocked("Blocked: " \o patterns[k][2] \o " operation on " \o pathType \o " " \o path)
    ELSE ScanGlobTemplates(command, path, globRegex, patterns, pathType, k + 1)

\* one iteration of the literal loop: both regexes are built before either is tested
\* (if one does not compile the template is skipped)
LiteralTemplateMatches(command, regexExpanded, regexOriginal) ==
  regexExpanded.ok /\ regexOriginal.ok
  /\ (Test(regexExpanded, command) \/ Test(regexOriginal, command))

RECURSIVE ScanLiteralTemplates(_, _, _, _, _, _, _)
\* the literal loop over the templates, from the k-th on
ScanLiteralTemplates(command, path, escapedExpanded, escapedOriginal, patterns, pathType, k) ==
  IF k > Len(patterns) THEN NotBlocked
  ELSE IF LiteralTemplateMatches(
            command,
            RegExp(ReplaceFirst(patterns[k][1], "{path}", escapedExpanded), FALSE),
            RegExp(ReplaceFirst(patterns[k][1], "{path}", escapedOriginal), FALSE))
    THEN Blocked("Blocked: " \o patterns[k][2] \o " operation on " \o pathType \o " " \o path)
    ELSE ScanLiteralTemplates(command, path, escapedExpanded, escapedOriginal, patterns,
                              pathType, k + 1)

checkPathPatterns(command, path, patterns, pathType) ==
  IF isGlobPattern(path)
  THEN ScanGlobTemplates(command, path, globToRegex(path), patterns, pathType, 1)
  ELSE ScanLiteralTemplates(command, path, EscapeRegExp(ExpandTilde(path)),
                            EscapeRegExp(path), patterns, pathType, 1)

(***************************************************************************)
(* matchers/bash.ts: checkBashCommand                                     *)
(*                                                                         *)
(* A Config is a record of four sequences; a bashToolPatterns entry is a  *)
(* record with pattern and reason, and with ask when the document gives   *)
(* it.                                                                     *)
(***************************************************************************)

RECURSIVE ScanNoDeletePaths(_, _, _), NoDeleteStep(_, _, _, _)
\* 4. the loop over noDeletePaths, from the k-th entry on
ScanNoDeletePaths(command, config, k) ==
  IF k > Len(config.noDeletePaths) THEN NotBlocked
  ELSE NoDeleteStep(command, config, k,
                    checkPathPatterns(command, config.noDeletePaths[k],
                                      NO_DELETE_BLOCKED, "no-delete path"))

\* result being checkPathPatterns' for the k-th entry
NoDeleteStep(command, config, k, result) ==
  IF result.blocked THEN result ELSE ScanNoDeletePaths(command, config, k + 1)

RECURSIVE ScanReadOnlyPaths(_, _, _), ReadOnlyStep(_, _, _, _)
\* 3. the loop over readOnlyPaths, from the k-th entry on
ScanReadOnlyPaths(command, config, k) ==
  IF k > Len(config.readOnlyPaths) THEN ScanNoDeletePaths(command, config, 1)
  ELSE ReadOnlyStep(command, config, k,
                    checkPathPatterns(command, config.readOnlyPaths[k],
                                      READ_ONLY_BLOCKED, "read-only path"))

\* result being checkPathPatterns' for the k-th entry
ReadOnlyStep(command, config, k, result) ==
  IF result.blocked THEN result ELSE ScanReadOnlyPaths(command, config, k + 1)

\* one iteration of the zero-access loop: does zeroPath occur in command
ZeroPathInCommand(command, zeroPath) ==
  IF isGlobPattern(zeroPath)
  THEN Matches(RegExp(globToRegex(zeroPath), TRUE), command)
  ELSE Includes(command, ExpandTilde(zeroPath)) \/ Includes(command, zeroPath)

RECURSIVE ScanZeroAccessPaths(_, _, _)
\* 2. the loop over zeroAccessPaths, from the k-th entry on
ScanZeroAccessPaths(command, config, k) ==
  IF k > Len(config.zeroAccessPaths) THEN ScanReadOnlyPaths(command, config, 1)
  ELSE IF ZeroPathInCommand(command, config.zeroAccessPaths[k])
    THEN Blocked("Blocked: zero-access "
                   \o (IF isGlobPattern(config.zeroAccessPaths[k]) THEN "pattern " ELSE "path ")
                   \o config.zeroAccessPaths[k] \o " (no operations allowed)")
    ELSE ScanZeroAccessPaths(command, config, k + 1)

\* shouldAsk === true
IsAsk(entry) == "ask" \in DOMAIN entry /\ entry.ask = TRUE

\* the first loop's iteration letting an ask entry through, as a host that prompts for
\* such commands would
AskOnlyPrompts(command, entry) ==
  ~IsAsk(entry) /\ Matches(RegExp(entry.pattern, TRUE), command)

\* the first loop's iteration without its try block: a pattern that does not compile
\* stops the scan as a match would
UncaughtStops(regex, command) == ~regex.ok \/ Test(regex, command)

BashPatternUncaught(command, entry) == UncaughtStops(RegExp(entry.pattern, TRUE), command)

\* one iteration of the first loop: the entry's pattern compiles and matches
\* (the catch block skips an entry whose pattern does not compile)
BashPatternMatches(command, entry) == Matches(RegExp(entry.pattern, TRUE), command)

RECURSIVE ScanBashToolPatterns(_, _, _)
\* 1. the loop over bashToolPatterns, from the k-th entry on
ScanBashToolPatterns(command, config, k) ==
  IF k > Len(config.bashToolPatterns) THEN ScanZeroAccessPaths(command, config, 1)
  ELSE IF BashPatternMatches(command, config.bashToolPatterns[k])
    THEN [blocked |-> TRUE, reason |-> "Blocked: " \o config.bashToolPatterns[k].reason,
          wasAskPattern |-> IsAsk(config.bashToolPatterns[k])]
    ELSE ScanBashToolPatterns(command, config, k + 1)

\* checkBashCommand with its first two loops in the other order
ZeroAccessBeforePatterns(command, config) ==
  IF \E k \in 1..Len(config.zeroAccessPaths) :
       ZeroPathInCommand(command, config.zeroAccessPaths[k])
  THEN ScanZeroAccessPaths(command, config, 1)
  ELSE ScanBashToolPatterns(command, config, 1)

checkBashCommand(command, config) == ScanBashToolPatterns(command, config, 1)

(***************************************************************************)
(* matchers/file.ts                                                        *)
(***************************************************************************)

RECURSIVE ScanReadOnlyFile(_, _, _)
\* the loop of checkFilePath over readOnlyPaths, from the k-th entry on
ScanReadOnlyFile(filePath, config, k) ==
  IF k > Len(config.readOnlyPaths) THEN NotBlocked
  ELSE IF matchPath(filePath, config.readOnlyPaths[k])
    THEN Blocked("read-only path " \o config.readOnlyPaths[k])
    ELSE ScanReadOnlyFile(filePath, config, k + 1)

RECURSIVE ScanZeroAccessFile(_, _, _)
\* the loop over zeroAccessPaths (of both functions), from the k-th entry on
ScanZeroAccessFile(filePath, config, k) ==
  IF k > Len(config.zeroAccessPaths) THEN NotBlocked
  ELSE IF matchPath(filePath, config.zeroAccessPaths[k])
    THEN Blocked("zero-access path " \o config.zeroAccessPaths[k] \o " (no operations allowed)")
    ELSE ScanZeroAccessFile(filePath, config, k + 1)

\* zero being the outcome of the first loop
AfterZeroAccess(filePath, config, zero) ==
  IF zero.blocked THEN zero ELSE ScanReadOnlyFile(filePath, config, 1)

checkFilePath(filePath, config) ==
  AfterZeroAccess(filePath, config, ScanZeroAccessFile(filePath, config, 1))

\* checkFilePathZeroAccessOnly going on to the read-only paths as checkFilePath does
ZeroAccessAndReadOnly(filePath, config) == checkFilePath(filePath, config)

checkFilePathZeroAccessOnly(filePath, config) == ScanZeroAccessFile(filePath, config, 1)

(***************************************************************************)
(* index.ts: the tool.execute.before hook                                 *)
(*                                                                         *)
(* args is a record of strings; a field it lacks is undefined, which the  *)
(* hook only tests for truth, as it does the empty string.                *)
(***************************************************************************)

Arg(args, key) == IF key \in DOMAIN args THEN args[key] ELSE ""

\* a || b || c
Or3(a, b, c) == IF a # "" THEN a ELSE IF b # "" THEN b ELSE c

Passed == [threw |-> FALSE, error |-> "", log |-> ""]
Thrown(error, log) == [threw |-> TRUE, error |-> error, log |-> log]

\* command.slice(0, 80) and the ellipsis of a longer command
Shortened(command) ==
  IF Len(command) > 80 THEN SubSeq(command, 1, 80) \o "..." ELSE command

\* the bash block, result being checkBashCommand's
BashOutcome(command, result) ==
  IF result.blocked
  THEN Thrown("SECURITY: " \o result.reason,
              "BLOCKED bash: " \o result.reason \o " | cmd: " \o Shortened(command))
  ELSE Passed

\* a path block, result being the check's: verb is "to", "of" or "on"
PathOutcome(what, verb, path, result) ==
  IF result.blocked
  THEN Thrown("SECURITY: Blocked " \o what \o " " \o verb \o " " \o result.reason \o ": " \o path,
              "BLOCKED " \o what \o ": " \o result.reason \o " | path: " \o path)
  ELSE Passed

HookBash(command, config) ==
  IF command # "" THEN BashOutcome(command, checkBashCommand(command, config)) ELSE Passed

HookWrite(tool, filePath, config) ==
  IF filePath # "" THEN PathOutcome(tool, "to", filePath, checkFilePath(filePath, config))
  ELSE Passed

HookRead(filePath, config) ==
  IF filePath # ""
  THEN PathOutcome("read", "of", filePath, checkFilePathZeroAccessOnly(filePath, config))
  ELSE Passed

HookList(tool, targetPath, config) ==
  IF targetPath # ""
  THEN PathOutcome(tool, "on", targetPath, checkFilePathZeroAccessOnly(targetPath, config))
  ELSE Passed

\* the body of the hook. Its four blocks test input.tool for disjoint sets of names,
\* so at most one of them runs
ToolExecuteBefore(tool, args, config) ==
  CASE tool = "bash" -> HookBash(Arg(args, "command"), config)
    [] tool \in {"write", "edit", "patch"} ->
         HookWrite(tool, Or3(Arg(args, "filePath"), Arg(args, "file_path"), Arg(args, "path")),
                   config)
    [] tool = "read" ->
         HookRead(Or3(Arg(args, "filePath"), Arg(args, "file_path"), Arg(args, "path")), config)
    [] tool \in {"glob", "grep", "list"} ->
         HookList(tool, Or3(Arg(args, "path"), Arg(args, "directory"), Arg(args, "dir")),
                  config)
    [] OTHER -> Passed

(***************************************************************************)
(* The inputs of the model                                                 *)
(***************************************************************************)

\* the most entries a patterns.yaml of SpecEval holds, over its four lists
MaxEntries == 2
\* the most configuration objects loadConfig builds in one run
MaxObjects == 3
\* the most reloadConfig calls in one run
MaxReloads == 2

Keys == {"bashToolPatterns", "zeroAccessPaths", "readOnlyPaths", "noDeletePaths"}

RmRf == [pattern |-> "\\brm\\s+-rf", reason |-> "rm with recursive force"]
Sudo == [pattern |-> "\\bsudo\\b", reason |-> "sudo", ask |-> TRUE]
Unparsable == [pattern |-> "rm (-rf", reason |-> "unterminated group"]

\* what the entries of each list are drawn from
Catalogue == [bashToolPatterns |-> {RmRf, Sudo, Unparsable},
              zeroAccessPaths |-> {"*.pem", "~/.ssh/"},
              readOnlyPaths |-> {"/etc/", "package-lock.json", "*.lock"},
              noDeletePaths |-> {"LICENSE", "/etc/"}]

\* the lists of at most n entries of S that name no entry twice (a second copy of an
\* entry never decides: the first one matches whenever it does)
SeqsUpTo(S, n) ==
  {list \in UNION {[1..k -> S] : k \in 0..n} :
     \A i, j \in 1..Len(list) : list[i] = list[j] => i = j}

\* a parsed patterns.yaml: a mapping that gives some of the four lists
\* (a list of no entries is left out of the document)
Document(b, z, r, n) ==
  LET all == [bashToolPatterns |-> b, zeroAccessPaths |-> z,
              readOnlyPaths |-> r, noDeletePaths |-> n]
  IN [k \in {key \in Keys : Len(all[key]) > 0} |-> all[k]]

Documents(max) ==
  {Document(b, z, r, n) :
     <<b, z, r, n>> \in
       {t \in SeqsUpTo(Catalogue.bashToolPatterns, max) \X SeqsUpTo(Catalogue.zeroAccessPaths, max)
              \X SeqsUpTo(Catalogue.readOnlyPaths, max) \X SeqsUpTo(Catalogue.noDeletePaths, max) :
          Len(t[1]) + Len(t[2]) + Len(t[3]) + Len(t[4]) <= max}}

\* the state of <plugin directory>/patterns.yaml
Missing == [exists |-> FALSE, doc |-> << >>]
Present(doc) == [exists |-> TRUE, doc |-> doc]

EvalFiles == {Missing} \cup {Present(d) : d \in Documents(MaxEntries)}

LifeFiles == {Missing,
              Present(Document(<<RmRf>>, <<"*.pem">>, << >>, << >>)),
              Present(Document(<< >>, <<"~/.ssh/">>, <<"package-lock.json">>, <<"LICENSE">>))}

Commands == {
  "ls",
  "rm -rf /etc/x.pem",
  "sudo rm -rf /",
  "cat /etc/hosts",
  "echo x > /etc/hosts",
  "date >/etc/motd",
  "cat ~/.ssh/id_rsa",
  "rm LICENSE",
  "unlink LICENSE",
  "echo x >> LICENSE",
  "echo x > LICENSE",
  "sed -i s/a/b/ LICENSE",
  "mv x LICENSE",
  "chmod 600 LICENSE",
  "truncate -s 0 LICENSE",
  "echo test > package-lock.json",
  "rm yarn.lock" }

Paths == {
  "/tmp/keys/server.pem",
  "/tmp/keys/server.pem.bak",
  "/tmp/keys/Server.PEM",
  "/tmp/keys/a\nb.pem",
  "/etc/ssl/key.pem",
  "/etc/hosts",
  "package-lock.json",
  "/proj/package-lock.json",
  "yarn.lock",
  "~/.ssh/id_rsa",
  "LICENSE" }

\* the direct calls of the three exported checks
EvalChecks ==
  {[fn |-> "checkBashCommand", arg |-> c] : c \in Commands \cup {""}}
  \cup {[fn |-> f, arg |-> p] : f \in {"checkFilePath", "checkFilePathZeroAccessOnly"},
                               p \in Paths \cup {"", "/etc", "/h/.ssh"}}

\* the tool calls the host announces to the hook: input.tool and output.args
EvalCalls ==
  {[tool |-> "bash", args |-> [command |-> c]] :
     c \in {"ls", "rm -rf /etc/x.pem", "echo test > package-lock.json"}}
  \cup {[tool |-> t, args |-> [filePath |-> p]] :
          t \in {"write", "edit", "patch", "read"},
          p \in {"package-lock.json", "/proj/package-lock.json", "/etc/ssl/key.pem"}}
  \cup {[tool |-> t, args |-> [path |-> p]] :
          t \in {"glob", "grep", "list"}, p \in {"/etc/ssl/key.pem", "/etc/hosts"}}
  \cup {[tool |-> "edit", args |-> [file_path |-> "/etc/hosts", path |-> "x"]],
        [tool |-> "read", args |-> [filePath |-> "", path |-> "/tmp/keys/server.pem"]],
        [tool |-> "glob", args |-> [directory |-> "~/.ssh/id_rsa"]],
        [tool |-> "list", args |-> [dir |-> "/etc/ssl/key.pem"]],
        [tool |-> "read", args |-> [directory |-> "/etc/ssl/key.pem"]],
        [tool |-> "bash", args |-> [path |-> "/etc/hosts"]],
        [tool |-> "fetch", args |-> [path |-> "/etc/hosts", command |-> "rm -rf /etc/x.pem"]]}

LifeCalls ==
  {[tool |-> "bash", args |-> [command |-> "rm -rf /etc/x.pem"]],
   [tool |-> "write", args |-> [filePath |-> "package-lock.json"]],
   [tool |-> "read", args |-> [filePath |-> "/tmp/keys/server.pem"]]}

(***************************************************************************)
(* The state                                                               *)
(***************************************************************************)

VARIABLES
  file,          \* patterns.yaml: Missing or Present(document)
  heap,          \* the Config objects built so far; an object is named by its index
  born,          \* born[i]: how many reloadConfig calls preceded the building of object i
  cachedConfig,  \* the module variable of patterns.ts: an object, or 0 for null
  firstLoaded,   \* what the first loadConfig since the start or the last reloadConfig returned (0: none yet)
  pluginConfig,  \* the const config the hook closes over (0: DamageControl has not run)
  reloads,       \* how many reloadConfig calls so far
  pending,       \* the call in flight
  last,          \* the outcome of the last call, until its caller takes it
  earlier        \* the outcome of one earlier check or hook call, as its caller kept it

vars == <<file, heap, born, cachedConfig, firstLoaded, pluginConfig, reloads, pending, last,
          earlier>>

None == [op |-> "none"]

\* a config that refuses every bash command, in place of the empty one
RefuseAllConfig == [bashToolPatterns |-> <<[pattern |-> ".", reason |-> "no patterns.yaml"]>>,
                    zeroAccessPaths |-> << >>, readOnlyPaths |-> << >>,
                    noDeletePaths |-> << >>]

EmptyConfig == [bashToolPatterns |-> << >>, zeroAccessPaths |-> << >>,
                readOnlyPaths |-> << >>, noDeletePaths |-> << >>]

\* config.<key> || []
OrEmpty(doc, key) == IF key \in DOMAIN doc THEN doc[key] ELSE << >>

\* the object literal loadConfig builds from the parsed document
Defaults(doc) == [bashToolPatterns |-> OrEmpty(doc, "bashToolPatterns"),
                  zeroAccessPaths |-> OrEmpty(doc, "zeroAccessPaths"),
                  readOnlyPaths |-> OrEmpty(doc, "readOnlyPaths"),
                  noDeletePaths |-> OrEmpty(doc, "noDeletePaths")]

\* loadConfig(pluginDir) in the current state: the object it returns (ret), the heap
\* and the cache it leaves, and whether it read the file (readFileSync and parseYaml)
loadConfig ==
  IF cachedConfig # 0
  THEN [ret |-> cachedConfig, heap |-> heap, cache |-> cachedConfig, read |-> FALSE]
  ELSE IF ~file.exists
    THEN [ret |-> Len(heap) + 1, heap |-> Append(heap, EmptyConfig), cache |-> 0,
          read |-> FALSE]
    ELSE [ret |-> Len(heap) + 1, heap |-> Append(heap, Defaults(file.doc)),
          cache |-> Len(heap) + 1, read |-> TRUE]

\* the effect on the state of a loadConfig call by caller, r being its outcome
LoadConfigBy(caller, r) ==
  /\ Len(r.heap) <= MaxObjects
  /\ heap' = r.heap
  /\ born' = IF Len(r.heap) > Len(heap) THEN Append(born, reloads) ELSE born
  /\ cachedConfig' = r.cache
  /\ firstLoaded' = IF firstLoaded = 0 THEN r.ret ELSE firstLoaded
  /\ last' = [op |-> caller, ret |-> r.ret, read |-> r.read, first |-> firstLoaded]

(***************************************************************************)
(* The operations                                                          *)
(***************************************************************************)

\* someone outside the program writes, replaces or removes patterns.yaml
EditFile(f) ==
  /\ f # file
  /\ file' = f
  /\ UNCHANGED <<heap, born, cachedConfig, firstLoaded, pluginConfig, reloads, pending, last, earlier>>

\* a call of the exported loadConfig
LoadConfig ==
  /\ pending = None
  /\ LoadConfigBy("loadConfig", loadConfig)
  /\ UNCHANGED <<file, pluginConfig, reloads, pending, earlier>>

\* reloadConfig emptying the cached object where it is, the reference kept
ReloadInPlace ==
  /\ pending = None
  /\ reloads < MaxReloads
  /\ heap' = IF cachedConfig = 0 THEN heap ELSE [heap EXCEPT ![cachedConfig] = EmptyConfig]
  /\ firstLoaded' = 0
  /\ reloads' = reloads + 1
  /\ last' = [op |-> "reloadConfig"]
  /\ UNCHANGED <<file, born, cachedConfig, pluginConfig, pending, earlier>>

\* a call of the exported reloadConfig
ReloadConfig ==
  /\ pending = None
  /\ reloads < MaxReloads
  /\ cachedConfig' = 0
  /\ firstLoaded' = 0
  /\ reloads' = reloads + 1
  /\ last' = [op |-> "reloadConfig"]
  /\ UNCHANGED <<file, heap, born, pluginConfig, pending, earlier>>

\* the host starts the plugin: DamageControl(ctx) loads the config once and returns
\* the hook that closes over it (the log line it writes first is the host's to keep)
DamageControl ==
  /\ pluginConfig = 0
  /\ pending = None
  /\ LoadConfigBy("DamageControl", loadConfig)
  /\ pluginConfig' = (loadConfig).ret
  /\ UNCHANGED <<file, reloads, pending, earlier>>

\* the host is about to run a tool and calls the hook
ToolCall(call) ==
  /\ pluginConfig # 0
  /\ pending = None
  /\ last = None
  /\ pending' = [op |-> "hook", tool |-> call.tool, args |-> call.args]
  /\ UNCHANGED <<file, heap, born, cachedConfig, firstLoaded, pluginConfig, reloads, last, earlier>>

\* the hook answering with the object the module caches, when there is one, and not
\* with the one it was created with
RunHookFromCache ==
  /\ pending.op = "hook"
  /\ last' = [op |-> "hook", tool |-> pending.tool, args |-> pending.args,
              config |-> pluginConfig,
              out |-> ToolExecuteBefore(pending.tool, pending.args,
                                        heap[IF cachedConfig # 0 THEN cachedConfig
                                             ELSE pluginConfig])]
  /\ pending' = None
  /\ UNCHANGED <<file, heap, born, cachedConfig, firstLoaded, pluginConfig, reloads, earlier>>

\* the body of the tool.execute.before hook, on the call in flight
RunHook ==
  /\ pending.op = "hook"
  /\ last' = [op |-> "hook", tool |-> pending.tool, args |-> pending.args,
              config |-> pluginConfig,
              out |-> ToolExecuteBefore(pending.tool, pending.args, heap[pluginConfig])]
  /\ pending' = None
  /\ UNCHANGED <<file, heap, born, cachedConfig, firstLoaded, pluginConfig, reloads, earlier>>

\* a direct call of one of the exported checks, with the config a loadConfig returned
CallCheck(check, c) ==
  /\ c \in 1..Len(heap)
  /\ pending = None
  /\ last = None
  /\ pending' = [op |-> check.fn, arg |-> check.arg, config |-> c]
  /\ UNCHANGED <<file, heap, born, cachedConfig, firstLoaded, pluginConfig, reloads, last, earlier>>

\* the body of the check called
RunCheck ==
  /\ pending.op \in {"checkBashCommand", "checkFilePath", "checkFilePathZeroAccessOnly"}
  /\ last' = [op |-> pending.op, arg |-> pending.arg, config |-> pending.config,
              out |-> CASE pending.op = "checkBashCommand" ->
                             checkBashCommand(pending.arg, heap[pending.config])
                        [] pending.op = "checkFilePath" ->
                             checkFilePath(pending.arg, heap[pending.config])
                        [] OTHER ->
                             checkFilePathZeroAccessOnly(pending.arg, heap[pending.config])]
  /\ pending' = None
  /\ UNCHANGED <<file, heap, born, cachedConfig, firstLoaded, pluginConfig, reloads, earlier>>

\* the caller takes the outcome of the last call
Return ==
  /\ pending = None
  /\ last # None
  /\ last' = None
  /\ UNCHANGED <<file, heap, born, cachedConfig, firstLoaded, pluginConfig, reloads, pending, earlier>>

\* the caller takes the outcome of a hook call and keeps it, with the contents the
\* config object had, to compare a later outcome with
Remember ==
  /\ pending = None
  /\ earlier = None
  /\ last.op = "hook"
  /\ earlier' = [call |-> last, snapshot |-> heap[last.config]]
  /\ last' = None
  /\ UNCHANGED <<file, heap, born, cachedConfig, firstLoaded, pluginConfig, reloads, pending>>

(***************************************************************************)
(* Spec: the life of the config cache and of the plugin, over a few files *)
(* and tool calls.                                                         *)
(* SpecEval: the checks and the hook over every patterns.yaml of at most  *)
(* MaxEntries entries, no list naming an entry twice, as left in place    *)
(* for the whole run.                                                      *)
(***************************************************************************)

Start(files) ==
  /\ file \in files
  /\ heap = << >>
  /\ born = << >>
  /\ cachedConfig = 0
  /\ firstLoaded = 0
  /\ pluginConfig = 0
  /\ reloads = 0
  /\ pending = None
  /\ last = None
  /\ earlier = None

Init == Start(LifeFiles)

Next ==
  \/ \E f \in LifeFiles : EditFile(f)
  \/ LoadConfig
  \/ ReloadConfig
  \/ DamageControl
  \/ \E call \in LifeCalls : ToolCall(call)
  \/ RunHook
  \/ Return
  \/ Remember

Spec == Init /\ [][Next]_vars

InitEval == Start(EvalFiles)

NextEval ==
  \/ DamageControl
  \/ \E call \in EvalCalls : ToolCall(call)
  \/ RunHook
  \/ \E check \in EvalChecks : CallCheck(check, pluginConfig)
  \/ RunCheck
  \/ Return

SpecEval == InitEval /\ [][NextEval]_vars

(***************************************************************************)
(* Properties. They read the outcome of the last call (last) against the  *)
(* config object the call was given.                                       *)
(***************************************************************************)

\* the entries of a list
Entries(list) == {list[k] : k \in 1..Len(list)}

\* the least of a non-empty set of indexes
First(hits) == CHOOSE i \in hits : \A j \in hits : i <= j

EndsWith(s, suffix) ==
  Len(suffix) <= Len(s) /\ SubSeq(s, Len(s) - Len(suffix) + 1, Len(s)) = suffix

\* the operations the templates name
Operations == {"write", "append", "edit", "move", "copy", "delete", "chmod", "chown",
               "chgrp", "truncate"}

\* the entries of each tier that match a command, by index
BashHits(command, config) ==
  {k \in 1..Len(config.bashToolPatterns) :
     BashPatternMatches(command, config.bashToolPatterns[k])}

ZeroHits(command, config) ==
  {k \in 1..Len(config.zeroAccessPaths) :
     ZeroPathInCommand(command, config.zeroAccessPaths[k])}

ReadOnlyHits(command, config) ==
  {k \in 1..Len(config.readOnlyPaths) :
     checkPathPatterns(command, config.readOnlyPaths[k], READ_ONLY_BLOCKED,
                       "read-only path").blocked}

NoDeleteHits(command, config) ==
  {k \in 1..Len(config.noDeletePaths) :
     checkPathPatterns(command, config.noDeletePaths[k], NO_DELETE_BLOCKED,
                       "no-delete path").blocked}

ZeroAccessReason(zeroPath) ==
  "Blocked: zero-access " \o (IF isGlobPattern(zeroPath) THEN "pattern " ELSE "path ")
    \o zeroPath \o " (no operations allowed)"

\* out blames entry of the path tier called pathType for some operation
BlamesPath(out, pathType, entry) ==
  /\ out.blocked
  /\ \E operation \in Operations :
       out.reason = "Blocked: " \o operation \o " operation on " \o pathType \o " " \o entry

\* out is the verdict of the first entry that matches, b, z, r and n being the hits of
\* the four tiers (each tier is computed once, and only when the tiers before it are
\* without a hit)
FirstMatchVerdict(config, out, b, z, r, n) ==
  \E bashHits \in {b} :
    IF bashHits # {}
    THEN out.blocked
         /\ out.reason = "Blocked: " \o config.bashToolPatterns[First(bashHits)].reason
    ELSE \E zeroHits \in {z} :
      IF zeroHits # {}
      THEN out = Blocked(ZeroAccessReason(config.zeroAccessPaths[First(zeroHits)]))
      ELSE \E readOnlyHits \in {r} :
        IF readOnlyHits # {}
        THEN BlamesPath(out, "read-only path", config.readOnlyPaths[First(readOnlyHits)])
        ELSE \E noDeleteHits \in {n} :
          IF noDeleteHits # {}
          THEN BlamesPath(out, "no-delete path", config.noDeletePaths[First(noDeleteHits)])
          ELSE out = NotBlocked

\* C1: checkBashCommand returns the verdict of the first matching entry, the entries
\* taken in the order bashToolPatterns (as declared), zeroAccessPaths, readOnlyPaths,
\* noDeletePaths: a matching bashToolPatterns entry gives the reason even when an entry
\* of a path tier matches too, and a later tier's reason is returned only when no entry
\* of an earlier tier matches.
FirstMatchWins ==
  last.op = "checkBashCommand" =>
    FirstMatchVerdict(heap[last.config], last.out,
                      BashHits(last.arg, heap[last.config]),
                      ZeroHits(last.arg, heap[last.config]),
                      ReadOnlyHits(last.arg, heap[last.config]),
                      NoDeleteHits(last.arg, heap[last.config]))

\* a command that matches a bashToolPatterns entry and a zeroAccessPaths entry got the
\* reason of the former
PatternBeatsZeroAccess ==
  /\ last.op = "checkBashCommand"
  /\ last.arg = "rm -rf /etc/x.pem"
  /\ heap[last.config].bashToolPatterns = <<RmRf>>
  /\ heap[last.config].zeroAccessPaths = <<"*.pem">>
  /\ ZeroHits(last.arg, heap[last.config]) = {1}
  /\ last.out.reason = "Blocked: rm with recursive force"

\* the bashToolPatterns entries whose pattern does not compile
BadEntries(config) ==
  {k \in 1..Len(config.bashToolPatterns) :
     ~RegExp(config.bashToolPatterns[k].pattern, TRUE).ok}

\* some bashToolPatterns entry compiles and matches
ValidEntryMatches(command, config) ==
  \E k \in 1..Len(config.bashToolPatterns) :
    Matches(RegExp(config.bashToolPatterns[k].pattern, TRUE), command)

\* C4: a bashToolPatterns entry whose pattern does not compile counts as not matching
\* and does not end checkBashCommand: with such an entry anywhere in the list, the
\* command is blocked exactly when a valid bashToolPatterns entry or an entry of a path
\* tier matches it, and never for the bad entry's reason.
InvalidPatternSkipped ==
  last.op = "checkBashCommand" /\ BadEntries(heap[last.config]) # {} =>
    /\ last.out.blocked <=>
         \/ ValidEntryMatches(last.arg, heap[last.config])
         \/ ZeroHits(last.arg, heap[last.config]) # {}
         \/ ReadOnlyHits(last.arg, heap[last.config]) # {}
         \/ NoDeleteHits(last.arg, heap[last.config]) # {}
    /\ \A k \in BadEntries(heap[last.config]) :
         last.out.reason # "Blocked: " \o heap[last.config].bashToolPatterns[k].reason

\* a valid entry after one that does not compile blocked the command
ValidAfterInvalidBlocks ==
  /\ last.op = "checkBashCommand"
  /\ heap[last.config].bashToolPatterns = <<Unparsable, RmRf>>
  /\ BadEntries(heap[last.config]) = {1}
  /\ last.out.blocked
  /\ last.out.reason = "Blocked: rm with recursive force"

AllTiersEmpty(config) == \A key \in Keys : config[key] = << >>

\* C5: with all four tiers empty, as in the config loadConfig returns when
\* patterns.yaml is missing, checkBashCommand, checkFilePath and
\* checkFilePathZeroAccessOnly return blocked = false with an empty reason for every
\* argument, and the hook does not throw.
EmptyPolicyAllowsAll ==
  /\ pluginConfig # 0 /\ ~file.exists => AllTiersEmpty(heap[pluginConfig])
  /\ last.op \in {"checkBashCommand", "checkFilePath", "checkFilePathZeroAccessOnly"}
       /\ AllTiersEmpty(heap[last.config])
     => last.out = [blocked |-> FALSE, reason |-> ""]
  /\ last.op = "hook" /\ AllTiersEmpty(heap[last.config]) => ~last.out.threw

\* patterns.yaml is missing and the hook let a recursive rm through
MissingFileAllowsRm ==
  /\ ~file.exists
  /\ last.op = "hook"
  /\ last.tool = "bash"
  /\ last.args = [command |-> "rm -rf /etc/x.pem"]
  /\ AllTiersEmpty(heap[last.config])
  /\ ~last.out.threw

\* the path the hook takes from the arguments of a write, edit, patch or read call
FileTarget(args) == Or3(Arg(args, "filePath"), Arg(args, "file_path"), Arg(args, "path"))

\* the path the hook takes from the arguments of a glob, grep or list call
ListTarget(args) == Or3(Arg(args, "path"), Arg(args, "directory"), Arg(args, "dir"))

\* a specifier that is a file name: no wildcard and no separator
IsFileName(entry) == ~isGlobPattern(entry) /\ ~Includes(entry, "/")

\* C6: for a readOnlyPaths entry that is a literal file name, a write, edit or patch
\* call whose target has that name as its final component is blocked (the hook
\* throws), be the target a bare name or a path with directories, and a read call on
\* the same target passes (no zero-access entry being configured).
FileNameProtectedAnywhere ==
  last.op = "hook" =>
    \A k \in 1..Len(heap[last.config].readOnlyPaths) :
      IsFileName(heap[last.config].readOnlyPaths[k])
        /\ basename(FileTarget(last.args)) = heap[last.config].readOnlyPaths[k]
      => /\ last.tool \in {"write", "edit", "patch"} => last.out.threw
         /\ last.tool = "read" /\ heap[last.config].zeroAccessPaths = << >>
              => ~last.out.threw

\* the zeroAccessPaths and the readOnlyPaths entries that match a target path, by index
ZeroMatches(path, config) ==
  {k \in 1..Len(config.zeroAccessPaths) : matchPath(path, config.zeroAccessPaths[k])}

ReadOnlyMatches(path, config) ==
  {k \in 1..Len(config.readOnlyPaths) : matchPath(path, config.readOnlyPaths[k])}

ZeroAccessVerdict(config, z) ==
  Blocked("zero-access path " \o config.zeroAccessPaths[First(z)] \o " (no operations allowed)")

\* the verdict checkFilePathZeroAccessOnly owes, z being the zero-access matches
ZeroOnlyVerdict(config, out, z) ==
  IF z # {} THEN out = ZeroAccessVerdict(config, z) ELSE out = NotBlocked

\* the verdict checkFilePath owes, z and r being the matches of its two tiers
WriteVerdict(config, out, z, r) ==
  IF z # {} THEN out = ZeroAccessVerdict(config, z)
  ELSE IF r # {} THEN out = Blocked("read-only path " \o config.readOnlyPaths[First(r)])
  ELSE out = NotBlocked

\* C7: a path query consults the tiers of its mode only, in order.
\* checkFilePathZeroAccessOnly, which the hook uses for read, glob, grep and list,
\* blocks exactly when a zeroAccessPaths entry matches the target, whatever
\* readOnlyPaths and noDeletePaths hold; checkFilePath, which the hook uses for write,
\* edit and patch, tests zeroAccessPaths and then readOnlyPaths, so that a target both
\* tiers match gets the zero-access reason, and noDeletePaths never changes its
\* verdict.
PathTiersByMode ==
  /\ last.op = "checkFilePathZeroAccessOnly" =>
       ZeroOnlyVerdict(heap[last.config], last.out, ZeroMatches(last.arg, heap[last.config]))
  /\ last.op = "checkFilePath" =>
       WriteVerdict(heap[last.config], last.out, ZeroMatches(last.arg, heap[last.config]),
                    ReadOnlyMatches(last.arg, heap[last.config]))
  /\ last.op = "hook" /\ last.tool \in {"read", "glob", "grep", "list"} =>
       (last.out.threw <=>
          ZeroMatches(IF last.tool = "read" THEN FileTarget(last.args)
                      ELSE ListTarget(last.args), heap[last.config]) # {})
  /\ last.op = "hook" /\ last.tool \in {"write", "edit", "patch"} =>
       (last.out.threw <=>
          \/ ZeroMatches(FileTarget(last.args), heap[last.config]) # {}
          \/ ReadOnlyMatches(FileTarget(last.args), heap[last.config]) # {})

\* a target that an entry of each tier matches got the zero-access reason from
\* checkFilePath
BothTiersMatchZeroWins ==
  /\ last.op = "checkFilePath"
  /\ last.arg = "/etc/ssl/key.pem"
  /\ heap[last.config].zeroAccessPaths = <<"*.pem">>
  /\ heap[last.config].readOnlyPaths = <<"/etc/">>
  /\ ReadOnlyMatches(last.arg, heap[last.config]) = {1}
  /\ last.out = Blocked("zero-access path *.pem (no operations allowed)")

\* the command runs rm, unlink, rmdir or shred with arguments that hold the path
DeletesPath(command, path) ==
  \E verb \in {"rm", "unlink", "rmdir", "shred"} :
    \E i \in 1..Len(command) :
      /\ i + Len(verb) <= Len(command)
      /\ SubSeq(command, i, i + Len(verb) - 1) = verb
      /\ i = 1 \/ Ch(command, i - 1) \notin WordChars
      /\ Ch(command, i + Len(verb)) \in SpaceChars
      /\ IndexFrom(command, path, i + Len(verb) + 1) # 0

\* commands that modify LICENSE and delete nothing
ModifiesLicense == {"echo x >> LICENSE", "echo x > LICENSE", "sed -i s/a/b/ LICENSE",
                    "mv x LICENSE", "chmod 600 LICENSE", "truncate -s 0 LICENSE"}

\* C8: a noDeletePaths entry blocks a bash command through a delete template only (rm,
\* unlink, rmdir or shred followed by the path) and the operation reported is delete:
\* with the entry LICENSE, rm LICENSE is blocked as a delete, and a command that only
\* writes, appends to, edits, moves onto, changes the permissions of or truncates
\* LICENSE is not blocked by the entry.
NoDeleteBlocksDeleteOnly ==
  last.op = "checkBashCommand" =>
    /\ Includes(last.out.reason, "no-delete path") =>
         \E k \in 1..Len(heap[last.config].noDeletePaths) :
           /\ last.out = Blocked("Blocked: delete operation on no-delete path "
                                   \o heap[last.config].noDeletePaths[k])
           /\ DeletesPath(last.arg, heap[last.config].noDeletePaths[k])
    /\ "LICENSE" \in Entries(heap[last.config].noDeletePaths)
         /\ (\A key \in Keys \ {"noDeletePaths"} : heap[last.config][key] = << >>)
       => /\ last.arg \in {"rm LICENSE", "unlink LICENSE"} =>
               last.out = Blocked("Blocked: delete operation on no-delete path LICENSE")
          /\ last.arg \in ModifiesLicense => last.out = NotBlocked

\* rm LICENSE was blocked by the noDeletePaths entry LICENSE
RmLicenseBlocked ==
  /\ last.op = "checkBashCommand"
  /\ last.arg = "rm LICENSE"
  /\ heap[last.config].noDeletePaths = <<"LICENSE">>
  /\ heap[last.config].readOnlyPaths = << >>
  /\ last.out = Blocked("Blocked: delete operation on no-delete path LICENSE")

\* the command text redirects output with ">" to a path that begins with /etc/
RedirectsUnderEtc(command) == Includes(command, "> /etc/") \/ Includes(command, ">/etc/")

\* C9: a literal directory under readOnlyPaths protects its subtree against the
\* modifications of a bash command, not against reads: with the entry /etc/ (and no
\* entry of an earlier tier), a command that redirects output with ">" to a path
\* beginning with /etc/ is blocked with the operation write, and cat /etc/hosts, which
\* only reads, is not blocked.
ReadOnlyDirectoryBlocksWrites ==
  last.op = "checkBashCommand"
    /\ heap[last.config].bashToolPatterns = << >>
    /\ heap[last.config].zeroAccessPaths = << >>
    /\ "/etc/" \in Entries(heap[last.config].readOnlyPaths)
  => /\ RedirectsUnderEtc(last.arg) =>
          last.out = Blocked("Blocked: write operation on read-only path /etc/")
     /\ last.arg = "cat /etc/hosts" => last.out = NotBlocked

\* a redirection without white space after the ">" was blocked as a write
RedirectIntoEtcBlocked ==
  /\ last.op = "checkBashCommand"
  /\ last.arg = "date >/etc/motd"
  /\ heap[last.config].readOnlyPaths = <<"/etc/">>
  /\ heap[last.config].bashToolPatterns = << >>
  /\ last.out = Blocked("Blocked: write operation on read-only path /etc/")

\* C10: a glob specifier is matched against a target as a whole string, anchored at
\* both ends and without regard to case, on the target's final component or its full
\* path: with the zeroAccessPaths entry *.pem, every target whose final component ends
\* in .pem is blocked by checkFilePath and checkFilePathZeroAccessOnly, and
\* /tmp/keys/server.pem.bak, whose final component goes on after .pem, is not.
PemGlobBlocksEveryPem ==
  last.op \in {"checkFilePath", "checkFilePathZeroAccessOnly"}
    /\ heap[last.config].zeroAccessPaths = <<"*.pem">>
    /\ heap[last.config].readOnlyPaths = << >>
  => /\ EndsWith(toLowerCase(basename(last.arg)), ".pem") => last.out.blocked
     /\ last.arg = "/tmp/keys/server.pem.bak" => ~last.out.blocked

\* C2: from the start to a reloadConfig call, and from one reloadConfig call to the
\* next, storage is read at most once: a loadConfig call that is not the first returns
\* the configuration the first returned and does not read patterns.yaml, whether the
\* file was there at the first call or not.
LoadedOnce ==
  last.op \in {"loadConfig", "DamageControl"} /\ last.first # 0 =>
    /\ ~last.read
    /\ heap[last.ret] = heap[last.first]

\* C3: the first loadConfig call after a reloadConfig call builds a new configuration
\* object, and no object obtained before a reload answers a query made after it, the
\* hook's included.
NoStaleConfigAfterReload ==
  /\ last.op \in {"loadConfig", "DamageControl"} /\ last.first = 0 =>
       born[last.ret] = reloads
  /\ last.op = "hook" => born[last.config] = reloads

\* an entry with its ask flag the other way: set where it was absent or false, absent
\* where it was true
ToggleEntry(entry) ==
  IF IsAsk(entry) THEN [pattern |-> entry.pattern, reason |-> entry.reason]
  ELSE [pattern |-> entry.pattern, reason |-> entry.reason, ask |-> TRUE]

\* config with the ask flag of every bashToolPatterns entry the other way
ToggleAsk(config) ==
  [config EXCEPT !.bashToolPatterns =
     [k \in 1..Len(config.bashToolPatterns) |-> ToggleEntry(config.bashToolPatterns[k])]]

\* the two verdicts agree on blocked and on reason
SameVerdict(a, b) == a.blocked = b.blocked /\ a.reason = b.reason

\* C11: an ask pattern blocks as a blocking one does: for two configs that differ in
\* the ask flags of their bashToolPatterns entries only, checkBashCommand returns the
\* same blocked and the same reason for every command, and the hook throws in the
\* same cases.
AskBlocksLikeDeny ==
  /\ last.op = "checkBashCommand" /\ heap[last.config].bashToolPatterns # << >> =>
       SameVerdict(last.out, checkBashCommand(last.arg, ToggleAsk(heap[last.config])))
  /\ last.op = "hook" /\ last.tool = "bash" /\ heap[last.config].bashToolPatterns # << >> =>
       last.out = ToolExecuteBefore(last.tool, last.args, ToggleAsk(heap[last.config]))

\* a command that only an ask entry matches was blocked, as it is when the entry
\* carries no ask flag
AskEntryBlocked ==
  /\ last.op = "checkBashCommand"
  /\ last.arg = "sudo rm -rf /"
  /\ heap[last.config].bashToolPatterns = <<Sudo>>
  /\ IsAsk(heap[last.config].bashToolPatterns[1])
  /\ ~IsAsk(ToggleAsk(heap[last.config]).bashToolPatterns[1])
  /\ last.out = [blocked |-> TRUE, reason |-> "Blocked: sudo", wasAskPattern |-> TRUE]

\* a hook call that was kept and the last one are the same query on the same config
\* contents
SameQueryAgain ==
  /\ earlier # None
  /\ last.op = "hook"
  /\ last.tool = earlier.call.tool
  /\ last.args = earlier.call.args
  /\ heap[last.config] = earlier.snapshot

\* the same query gets the same verdict again, and the config object of the call that
\* was kept holds what it held
VerdictRepeats ==
  /\ earlier # None => heap[earlier.call.config] = earlier.snapshot
  /\ SameQueryAgain => last.out = earlier.call.out

\* a step that evaluates a query changes neither a config object, nor the cache, nor
\* the object the hook holds
EvaluationKeepsConfig ==
  pending # None /\ pending' = None =>
    heap' = heap /\ cachedConfig' = cachedConfig /\ pluginConfig' = pluginConfig

WholeConfigs == {EmptyConfig} \cup {Defaults(f.doc) : f \in {g \in LifeFiles : g.exists}}

\* every config object holds the four tiers of one load, and the hook answered with the
\* object it was created with
EveryObjectWhole ==
  /\ \A i \in 1..Len(heap) : heap[i] \in WholeConfigs
  /\ last.op = "hook" => last.config = pluginConfig

\* no step changes a config object that exists; a reloadConfig step only clears the
\* cache reference; a step that fills the cache fills it with a new object; the hook
\* keeps the object it was created with
SnapshotsKept ==
  /\ Len(heap') >= Len(heap)
  /\ \A i \in 1..Len(heap) : heap'[i] = heap[i]
  /\ reloads' # reloads =>
       cachedConfig' = 0 /\ heap' = heap /\ pluginConfig' = pluginConfig
  /\ cachedConfig' \notin {0, cachedConfig} =>
       cachedConfig' = Len(heap) + 1 /\ Len(heap') = Len(heap) + 1
  /\ pluginConfig # 0 => pluginConfig' = pluginConfig

\* C13: however hook calls interleave with loadConfig and reloadConfig calls, an
\* evaluation sees one whole config snapshot, the four tiers of the same load:
\* reloadConfig only clears the cache reference, loadConfig builds a new object, and
\* no config object changes after loadConfig has returned it. (The hook's evaluation
\* is one step: it runs from the call of the check to its return without an await.)
OneWholeSnapshot == []EveryObjectWhole /\ [][SnapshotsKept]_vars

\* the hook answered with the object of the first load, intact, after a reload and a
\* load that built an object of other contents
HookSeesFirstLoadAfterReload ==
  /\ last.op = "hook"
  /\ last.config = 1
  /\ born[1] = 0
  /\ reloads >= 1
  /\ cachedConfig = 2
  /\ born[2] >= 1
  /\ heap[2] # heap[1]
  /\ heap[1] \in WholeConfigs

=============================================================================
